---- MODULE Spec2Model ----
(***************************************************************************)
(* A model of ielts_tracker.py: the CSV record store, the Add Exam and     *)
(* Delete Exam windows with their callbacks, and the View Stats            *)
(* aggregations (overall trend, Listening by part, question-type table).   *)
(*                                                                         *)
(* Conventions.                                                            *)
(*  - A text the code parses or builds character by character ("15",       *)
(*    "15-1", "14:10", an Entry's content) is a sequence of one-character  *)
(*    strings; a text the code only compares (module, question type) is a  *)
(*    TLA+ string.                                                         *)
(*  - A float is an exact fraction <<n, d>> in lowest terms with d >= 0;   *)
(*    d = 0 gives the IEEE specials: <<0,0>> is NaN, <<1,0>> is inf and    *)
(*    <<-1,0>> is -inf.  Rounding error of binary floats is not modelled.  *)
(*  - A cell that may be absent (None, NaN, the empty CSV field) is <<>>   *)
(*    when absent and <<v>> when present.                                  *)
(*  - A band score is kept in tenths (4.5 is 45).                          *)
(***************************************************************************)
EXTENDS Integers, Sequences, FiniteSets, TLC

VARIABLES
    csv,        \* the rows of ielts_progress.csv, as load_data() returns them
    addWin,     \* the Add Exam window: its Tk variables and widget states
    delWin,     \* the Delete Exam window: the DataFrame its closure captured
    viewWin,    \* the Choose Plot window: the DataFrame view_stats captured
    presented,  \* what the last callback handed to matplotlib / the Treeview
    call        \* a direct call of a helper: its argument and its result

vars == <<csv, addWin, delWin, viewWin, presented, call>>

(***************************************************************************)
(* Bounds of the model.                                                    *)
(***************************************************************************)
MaxOver == 10        \* get_band is called on -MaxOver .. 40 + MaxOver
MaxRecords == 3      \* rows the store holds at most in the GUI model
MaxStatsRecords == 2 \* rows of a store the aggregations are applied to

(***************************************************************************)
(* Python text primitives used by the code.                                *)
(***************************************************************************)
ORD ==
    ("-" :> 45) @@ ("0" :> 48) @@ ("1" :> 49) @@ ("2" :> 50) @@ ("3" :> 51) @@
    ("4" :> 52) @@ ("5" :> 53) @@ ("6" :> 54) @@ ("7" :> 55) @@ ("8" :> 56) @@
    ("9" :> 57) @@ (":" :> 58) @@ ("x" :> 120)

DIGITS == {"0", "1", "2", "3", "4", "5", "6", "7", "8", "9"}

DigitChar == <<"0", "1", "2", "3", "4", "5", "6", "7", "8", "9">>

RECURSIVE digits_value(_)
digits_value(s) ==
    IF s = <<>> THEN 0
    ELSE 10 * digits_value(SubSeq(s, 1, Len(s) - 1)) + (ORD[s[Len(s)]] - ORD["0"])

all_digits(s) == Len(s) > 0 /\ \A i \in 1..Len(s) : s[i] \in DIGITS

\* int(text): whether it raises ValueError, and its value when it does not.
int_ok(s) == all_digits(s) \/ (Len(s) > 1 /\ s[1] = "-" /\ all_digits(Tail(s)))

int(s) == IF s[1] = "-" THEN 0 - digits_value(Tail(s)) ELSE digits_value(s)

RECURSIVE nat_str(_)
nat_str(n) ==
    IF n < 10 THEN <<DigitChar[n + 1]>>
    ELSE nat_str(n \div 10) \o <<DigitChar[(n % 10) + 1]>>

\* str(n) / Series.astype(str) of an integer.
str(n) == IF n < 0 THEN <<"-">> \o nat_str(0 - n) ELSE nat_str(n)

\* text.split(sep)
RECURSIVE split(_, _)
split(s, sep) ==
    IF \E i \in 1..Len(s) : s[i] = sep
    THEN LET i == CHOOSE k \in 1..Len(s) :
                      s[k] = sep /\ \A j \in 1..(k - 1) : s[j] # sep
         IN  <<SubSeq(s, 1, i - 1)>> \o split(SubSeq(s, i + 1, Len(s)), sep)
    ELSE <<s>>

\* Python's order on texts (by code point, a proper prefix first).
RECURSIVE text_less(_, _)
text_less(a, b) ==
    IF b = <<>> THEN FALSE
    ELSE IF a = <<>> THEN TRUE
    ELSE IF a[1] # b[1] THEN ORD[a[1]] < ORD[b[1]]
    ELSE text_less(Tail(a), Tail(b))

\* now.strftime("%H:%M") of a clock reading [hour, minute].
strftime_HM(now) ==
    LET two(n) == IF n < 10 THEN <<"0">> \o nat_str(n) ELSE nat_str(n)
    IN  two(now.hour) \o <<":">> \o two(now.minute)

(***************************************************************************)
(* Floats as exact fractions.                                              *)
(***************************************************************************)
Abs(n) == IF n < 0 THEN 0 - n ELSE n

RECURSIVE GCD(_, _)
GCD(a, b) == IF b = 0 THEN a ELSE GCD(b, a % b)

Frac(n, d) ==
    IF d = 0 THEN <<(IF n > 0 THEN 1 ELSE IF n < 0 THEN 0 - 1 ELSE 0), 0>>
    ELSE LET g == GCD(Abs(n), Abs(d))
             s == IF d < 0 THEN 0 - 1 ELSE 1
         IN  <<(s * n) \div g, (s * d) \div g>>

FromInt(n) == <<n, 1>>
NaN == <<0, 0>>
IsNaN(x) == x = NaN
FAdd(x, y) == Frac(x[1] * y[2] + y[1] * x[2], x[2] * y[2])
FMul(x, y) == Frac(x[1] * y[1], x[2] * y[2])
FDiv(x, y) == Frac(x[1] * y[2], x[2] * y[1])
FLeq(x, y) == x[2] # 0 /\ y[2] # 0 /\ x[1] * y[2] <= y[1] * x[2]

\* float(text) of the texts the model types into an Entry: an integer text
\* converts, anything else raises ValueError.
float_ok(s) == int_ok(s)
float(s) == FromInt(int(s))

\* f"{x:.kf}" of a finite float, as the number of 10^-k units shown
\* (round half to even on the exact value); <<>> stands for the text "nan"
\* or "inf".
format_fixed(x, scale) ==
    IF x[2] = 0 THEN <<>>
    ELSE LET n == x[1] * scale
             d == x[2]
             q == n \div d
             r == n % d
         IN  <<(IF 2 * r > d \/ (2 * r = d /\ q % 2 = 1) THEN q + 1 ELSE q)>>

(***************************************************************************)
(* CONFIG: the band table.                                                 *)
(***************************************************************************)
BAND_MAP ==
    (1 :> 10) @@
    (2 :> 20) @@ (3 :> 20) @@
    (4 :> 25) @@ (5 :> 25) @@
    (6 :> 30) @@ (7 :> 30) @@
    (8 :> 35) @@ (9 :> 35) @@ (10 :> 35) @@
    (11 :> 40) @@ (12 :> 40) @@
    (13 :> 45) @@ (14 :> 45) @@ (15 :> 45) @@
    (16 :> 50) @@ (17 :> 50) @@ (18 :> 50) @@ (19 :> 50) @@
    (20 :> 55) @@ (21 :> 55) @@ (22 :> 55) @@
    (23 :> 60) @@ (24 :> 60) @@ (25 :> 60) @@ (26 :> 60) @@
    (27 :> 65) @@ (28 :> 65) @@ (29 :> 65) @@
    (30 :> 70) @@ (31 :> 70) @@ (32 :> 70) @@
    (33 :> 75) @@ (34 :> 75) @@
    (35 :> 80) @@ (36 :> 80) @@
    (37 :> 85) @@ (38 :> 85) @@
    (39 :> 90) @@ (40 :> 90)

\* A get_band that forgets the upper clip.
get_band_no_clip(score) ==
    LET s == IF score < 0 THEN 0 ELSE score
    IN  IF s \in DOMAIN BAND_MAP THEN BAND_MAP[s] ELSE 0

get_band(score) ==
    LET s1 == IF score > 40 THEN 40 ELSE score
        s2 == IF s1 < 0 THEN 0 ELSE s1
    IN  IF s2 \in DOMAIN BAND_MAP THEN BAND_MAP[s2] ELSE 0

\* A key that weighs the test instead of the book.
book_test_order_swapped(book, test) == int(book) + int(test) * 10

book_test_order(book, test) == int(book) * 10 + int(test)

(***************************************************************************)
(* CONFIG: the vocabularies and the values the comboboxes offer.           *)
(***************************************************************************)
LISTENING_TYPES ==
    <<"Multiple choice", "Matching (move into the gaps)",
      "Plan/map/diagram labelling", "Form completion", "Note completion",
      "Table completion", "Flow-chart completion", "Summary completion",
      "Sentence completion", "Short-answer questions", "Two-facts">>

READING_TYPES ==
    <<"Multiple choice", "T/F/NG (Identifying information)",
      "Y/N/NG (Identifying writer's views)", "Matching information",
      "Matching headings", "Matching features", "Matching sentence endings",
      "Sentence completion", "Summary completion", "Note completion",
      "Table completion", "Flow-chart completion", "Diagram label completion",
      "Letterbox completion", "Short-answer questions", "Two-facts">>

Range(f) == {f[i] : i \in DOMAIN f}

BOOK_VALUES == {str(i) : i \in 10..29}
TEST_VALUES == {str(i) : i \in 1..4}
PART_VALUES == {str(i) : i \in 1..4}
MODULE_VALUES == {"Listening", "Reading"}

(***************************************************************************)
(* CSV store.                                                              *)
(***************************************************************************)
\* The store the module-level setup creates when the file does not exist:
\* the header line and no rows.
EmptyStore == <<>>

load_data == csv

\* What read_csv gives back for a row that to_csv wrote from the dict that
\* submit builds: the part text "1" comes back as the number 1, the empty
\* text and None come back as NaN; numbers and the other texts come back
\* as they were.
read_back(new_row) ==
    [new_row EXCEPT !.part = IF new_row.part = <<>> THEN <<>>
                             ELSE <<int(new_row.part)>>]

\* df.drop(df.index[idx]) on a freshly loaded frame: position idx (from 0).
drop(df, idx) ==
    [i \in 1..(Len(df) - 1) |-> IF i <= idx THEN df[i] ELSE df[i + 1]]

(***************************************************************************)
(* Add Exam window.                                                        *)
(***************************************************************************)
NoAddWin ==
    [open |-> FALSE, module_var |-> "", part_var |-> <<>>, qtype_var |-> "",
     qtype_values |-> <<>>, part_state |-> "", minutes_state |-> ""]

\* The widgets as add_exam builds them, before its call of on_module_change.
NewAddWin ==
    [open |-> TRUE, module_var |-> "Listening", part_var |-> <<"1">>,
     qtype_var |-> "", qtype_values |-> LISTENING_TYPES,
     part_state |-> "readonly", minutes_state |-> "normal"]

on_module_change(w) ==
    IF w.module_var = "Listening"
    THEN [w EXCEPT !.qtype_values = LISTENING_TYPES, !.part_state = "readonly",
                   !.minutes_state = "disabled", !.part_var = <<"1">>,
                   !.qtype_var = ""]
    ELSE [w EXCEPT !.qtype_values = READING_TYPES, !.part_state = "disabled",
                   !.part_var = <<>>, !.minutes_state = "normal",
                   !.qtype_var = ""]

\* The body of submit up to the save: <<>> when it shows an error and
\* returns (or an exception reaches the handler), <<new_row>> otherwise.
new_row(w, book_text, test_text, total_text, correct_text, minutes_text, now) ==
    IF ~int_ok(book_text) \/ ~int_ok(test_text) THEN <<>>
    ELSE
    LET book == int(book_text)
        test == int(test_text)
        module == w.module_var
        part == IF module = "Listening" THEN w.part_var ELSE <<>>
        qtype == w.qtype_var
    IN
    IF qtype = "" THEN <<>>
    ELSE IF ~int_ok(total_text) \/ ~int_ok(correct_text) THEN <<>>
    ELSE
    LET total_q == int(total_text)
        correct == int(correct_text)
        parsed == module = "Reading" /\ float_ok(minutes_text)
        minutes == IF parsed THEN <<float(minutes_text)>> ELSE <<>>
        avg_time == IF minutes # <<>> /\ total_q > 0
                    THEN <<FDiv(minutes[1], FromInt(total_q))>> ELSE <<>>
    IN
    IF parsed /\ FLeq(minutes[1], FromInt(0)) THEN <<>>
    ELSE IF correct > total_q THEN <<>>
    ELSE <<[date |-> now.date, time |-> strftime_HM(now), book |-> book,
            test |-> test, module |-> module, part |-> part,
            question_type |-> qtype, total_questions |-> total_q,
            correct |-> correct, minutes |-> minutes,
            avg_time_per_q |-> avg_time]>>

\* "Add Exam Record": a new window (a window still open is left behind).
add_exam ==
    /\ addWin' = on_module_change(NewAddWin)
    /\ UNCHANGED <<csv, delWin, viewWin, presented, call>>

\* The user picks a module: <<ComboboxSelected>> runs on_module_change.
select_module(m) ==
    /\ addWin.open
    /\ m \in MODULE_VALUES
    /\ addWin' = on_module_change([addWin EXCEPT !.module_var = m])
    /\ UNCHANGED <<csv, delWin, viewWin, presented, call>>

\* The user picks a part; the combobox takes it only while it is enabled.
select_part(p) ==
    /\ addWin.open
    /\ addWin.part_state = "readonly"
    /\ p \in PART_VALUES
    /\ addWin' = [addWin EXCEPT !.part_var = p]
    /\ UNCHANGED <<csv, delWin, viewWin, presented, call>>

\* The user picks one of the question types the combobox lists.
select_qtype(q) ==
    /\ addWin.open
    /\ q \in Range(addWin.qtype_values)
    /\ addWin' = [addWin EXCEPT !.qtype_var = q]
    /\ UNCHANGED <<csv, delWin, viewWin, presented, call>>

\* "Save".  The store is capped at MaxRecords rows.
submit(book_text, test_text, total_text, correct_text, minutes_text, now) ==
    /\ addWin.open
    /\ book_text \in BOOK_VALUES
    /\ test_text \in TEST_VALUES
    /\ Len(csv) < MaxRecords
    /\ LET row == new_row(addWin, book_text, test_text, total_text,
                          correct_text, minutes_text, now)
       IN  IF row = <<>>
           THEN UNCHANGED <<csv, addWin>>
           ELSE /\ csv' = load_data \o <<read_back(row[1])>>
                /\ addWin' = NoAddWin
    /\ UNCHANGED <<delWin, viewWin, presented, call>>

(***************************************************************************)
(* Delete Exam window.                                                     *)
(***************************************************************************)
NoDelWin == [open |-> FALSE, df |-> <<>>]

\* "Delete Exam Record": loads the store and lists its rows; no window when
\* the store is empty.
delete_exam ==
    /\ delWin' = IF load_data = <<>> THEN delWin
                 ELSE [open |-> TRUE, df |-> load_data]
    /\ UNCHANGED <<csv, addWin, viewWin, presented, call>>

\* "Delete Selected" with the listbox selection sel (<<>>: nothing selected).
delete_selected(sel) ==
    /\ delWin.open
    /\ IF sel = <<>> THEN TRUE ELSE sel[1] \in 0..(Len(delWin.df) - 1)
    /\ IF sel = <<>>
       THEN UNCHANGED <<csv, delWin>>
       ELSE /\ csv' = drop(delWin.df, sel[1])
            /\ delWin' = NoDelWin
    /\ UNCHANGED <<addWin, viewWin, presented, call>>

(***************************************************************************)
(* pandas primitives used by the aggregations.                             *)
(***************************************************************************)
RECURSIVE sum(_)
sum(s) == IF s = <<>> THEN 0 ELSE s[1] + sum(Tail(s))

RECURSIVE fsum(_)
fsum(s) == IF s = <<>> THEN FromInt(0) ELSE FAdd(s[1], fsum(Tail(s)))

\* df[col].values
column(df, col) == [i \in 1..Len(df) |-> df[i][col]]

\* The unique values of a key in sorted order, as groupby (sort=True) and
\* sorted() give them: texts by code point.
sorted_texts(S) ==
    [i \in 1..Cardinality(S) |->
        CHOOSE x \in S : Cardinality({y \in S : text_less(y, x)}) = i - 1]

\* Integers in increasing order.
sorted_ints(S) ==
    [i \in 1..Cardinality(S) |->
        CHOOSE x \in S : Cardinality({y \in S : y < x}) = i - 1]

\* An aggregation that keeps a group's first value.
agg_first(g, col) == g[1][col]

\* agg({col: "sum"}) over the rows g of one group.
agg_sum(g, col) == sum(column(g, col))

\* A mean that counts an absent value as 0.
mean_fillna(vals) ==
    IF vals = <<>> THEN NaN
    ELSE FDiv(fsum([i \in 1..Len(vals) |->
                       IF vals[i] = <<>> THEN FromInt(0) ELSE vals[i][1]]),
              FromInt(Len(vals)))

\* agg({col: "mean"}): the mean of the values present (skipna), NaN when
\* none is.
agg_mean(vals) ==
    LET present == SelectSeq(vals, LAMBDA v : v # <<>>)
    IN  IF present = <<>> THEN NaN
        ELSE FDiv(fsum([i \in 1..Len(present) |-> present[i][1]]),
                  FromInt(Len(present)))

\* sort_values("sort_key") of rows whose keys differ.
RECURSIVE sort_values(_)
sort_values(rows) ==
    IF rows = <<>> THEN <<>>
    ELSE LET n == Len(rows)
             init == sort_values(SubSeq(rows, 1, n - 1))
             p == Cardinality({i \in 1..Len(init) :
                                  init[i].sort_key <= rows[n].sort_key})
         IN  SubSeq(init, 1, p) \o <<rows[n]>> \o SubSeq(init, p + 1, Len(init))

(***************************************************************************)
(* View Stats: the overall trend.                                          *)
(***************************************************************************)
\* df["book"].astype(str) + "-" + df["test"].astype(str)
book_test(r) == str(r.book) \o <<"-">> \o str(r.test)

\* lambda x: book_test_order(*x.split("-"))
sort_key_of(bt) == LET p == split(bt, "-") IN book_test_order(p[1], p[2])

\* groupby("book_test").agg({"correct": "sum", "total_questions": "sum"})
groupby_book_test(df_mod) ==
    LET keys == sorted_texts({book_test(df_mod[i]) : i \in 1..Len(df_mod)})
    IN  [k \in 1..Len(keys) |->
            LET g == SelectSeq(df_mod, LAMBDA r : book_test(r) = keys[k])
            IN  [book_test |-> keys[k],
                 correct |-> agg_sum(g, "correct"),
                 total_questions |-> agg_sum(g, "total_questions")]]

\* The hour of the smallest clock time among a group's records.
min_hour(times) ==
    IF Len(times) > 0
    THEN LET hs == {int(split(times[i], ":")[1]) : i \in 1..Len(times)}
         IN  CHOOSE h \in hs : \A g \in hs : h <= g
    ELSE 12

\* The hour of the first record's time, 12 when there is none.
first_hour(times) ==
    IF Len(times) > 0 THEN int(split(times[1], ":")[1]) ELSE 12

Error == [kind |-> "error"]

plot_overall_out(df, module) ==
    LET df_mod == SelectSeq(df, LAMBDA r : r.module = module)
    IN
    IF df_mod = <<>> THEN Error
    ELSE
    LET g0 == groupby_book_test(df_mod)
        g1 == [k \in 1..Len(g0) |->
                  [book_test |-> g0[k].book_test,
                   correct |-> g0[k].correct,
                   total_questions |-> g0[k].total_questions,
                   band_score |-> get_band(g0[k].correct),
                   sort_key |-> sort_key_of(g0[k].book_test)]]
        grouped == sort_values(g1)
        hours == [k \in 1..Len(grouped) |->
                     first_hour(column(
                         SelectSeq(df_mod,
                                   LAMBDA r : book_test(r) = grouped[k].book_test),
                         "time"))]
    IN  [kind |-> "overall", module |-> module, df |-> df,
         grouped |-> grouped, hours |-> hours,
         avg |-> Frac(sum(column(grouped, "band_score")), Len(grouped))]

(***************************************************************************)
(* View Stats: Listening by part.                                          *)
(***************************************************************************)
\* (book_test, part) keys: by the text, then by the part number.
sorted_pairs(S) ==
    LET less(a, b) == text_less(a[1], b[1]) \/ (a[1] = b[1] /\ a[2] < b[2])
    IN  [i \in 1..Cardinality(S) |->
            CHOOSE x \in S : Cardinality({y \in S : less(y, x)}) = i - 1]

\* sorted(book_tests, key=lambda x: book_test_order(*x.split("-"))) of texts
\* whose keys differ.
sorted_by_key(S) ==
    [i \in 1..Cardinality(S) |->
        CHOOSE x \in S :
            Cardinality({y \in S : sort_key_of(y) < sort_key_of(x)}) = i - 1]

\* A sub-score read from the band table.
band_of_scaled(x) ==
    IF x[2] = 0 THEN NaN ELSE Frac(get_band(x[1] \div x[2]), 10)

\* lambda x: 5 + (4 * x / 10)
approx_band(x) == FAdd(FromInt(5), FDiv(FMul(FromInt(4), x), FromInt(10)))

\* groupby(["book_test", "part"]).agg(sum) with the three derived columns.
\* groupby leaves out the rows whose part is NaN.
groupby_book_test_part(df_list) ==
    LET keyed == SelectSeq(df_list, LAMBDA r : r.part # <<>>)
        keys == sorted_pairs({<<book_test(keyed[i]), keyed[i].part[1]>> :
                                 i \in 1..Len(keyed)})
    IN  [k \in 1..Len(keys) |->
            LET g == SelectSeq(keyed, LAMBDA r : book_test(r) = keys[k][1]
                                                  /\ r.part[1] = keys[k][2])
                correct == agg_sum(g, "correct")
                total == agg_sum(g, "total_questions")
                percent == FDiv(FromInt(correct), FromInt(total))
                scaled == FMul(percent, FromInt(10))
            IN  [book_test |-> keys[k][1], part |-> keys[k][2],
                 correct |-> correct, total_questions |-> total,
                 percent |-> percent, scaled_score |-> scaled,
                 band_score |-> approx_band(scaled)]]

plot_listening_part_by_part_out(df) ==
    LET df_list == SelectSeq(df, LAMBDA r : r.module = "Listening")
    IN
    IF df_list = <<>> THEN Error
    ELSE
    LET grouped == groupby_book_test_part(df_list)
        parts == sorted_ints({grouped[k].part : k \in 1..Len(grouped)})
        book_tests == sorted_by_key({grouped[k].book_test :
                                        k \in 1..Len(grouped)})
        y_vals(p) ==
            [j \in 1..Len(book_tests) |->
                LET row == SelectSeq(grouped,
                                     LAMBDA g : g.part = p
                                                /\ g.book_test = book_tests[j])
                IN  IF Len(row) = 0 THEN NaN ELSE row[1].band_score]
    IN  [kind |-> "by_part", df |-> df, grouped |-> grouped,
         book_tests |-> book_tests,
         lines |-> [i \in 1..Len(parts) |->
                       [part |-> parts[i], y_vals |-> y_vals(parts[i])]]]

(***************************************************************************)
(* View Stats: the question-type table.                                    *)
(***************************************************************************)
\* The question types in the order of Python's string comparison.
ALPHABETICAL ==
    <<"Diagram label completion", "Flow-chart completion", "Form completion",
      "Letterbox completion", "Matching (move into the gaps)",
      "Matching features", "Matching headings", "Matching information",
      "Matching sentence endings", "Multiple choice", "Note completion",
      "Plan/map/diagram labelling", "Sentence completion",
      "Short-answer questions", "Summary completion",
      "T/F/NG (Identifying information)", "Table completion", "Two-facts",
      "Y/N/NG (Identifying writer's views)">>

rank(q) == CHOOSE i \in 1..Len(ALPHABETICAL) : ALPHABETICAL[i] = q

\* (question_type, part) keys: by the type, then by the part number.
sorted_qtype_part(S) ==
    LET less(a, b) ==
            \/ rank(a[1]) < rank(b[1])
            \/ (a[1] = b[1] /\ a[2] # <<>> /\ b[2] # <<>> /\ a[2][1] < b[2][1])
    IN  [i \in 1..Cardinality(S) |->
            CHOOSE x \in S : Cardinality({y \in S : less(y, x)}) = i - 1]

\* An accuracy that never exceeds 100.
accuracy_capped(correct, total) ==
    IF total > 0
    THEN (IF correct > total THEN FromInt(100)
          ELSE FDiv(FromInt(100 * correct), FromInt(total)))
    ELSE FromInt(0)

\* 100 * correct / total if total > 0 else 0
accuracy(correct, total) ==
    IF total > 0 THEN FDiv(FromInt(100 * correct), FromInt(total))
    ELSE FromInt(0)

\* The rows the loop inserts for one module.
table_rows(df_stats, module) ==
    LET df_mod0 == SelectSeq(df_stats, LAMBDA r : r.module = module)
        df_mod == IF module = "Reading"
                  THEN SelectSeq(df_mod0, LAMBDA r : r.minutes # <<>>)
                  ELSE df_mod0
        by_part == module = "Listening"
        keyed == IF by_part THEN SelectSeq(df_mod, LAMBDA r : r.part # <<>>)
                 ELSE df_mod
        key(r) == <<r.question_type, IF by_part THEN r.part ELSE <<>> >>
        keys == sorted_qtype_part({key(keyed[i]) : i \in 1..Len(keyed)})
        grouped ==
            [k \in 1..Len(keys) |->
                LET g == SelectSeq(keyed, LAMBDA r : key(r) = keys[k])
                IN  [question_type |-> keys[k][1], part |-> keys[k][2],
                     correct |-> agg_sum(g, "correct"),
                     total_questions |-> agg_sum(g, "total_questions"),
                     avg_time_per_q |-> agg_mean(column(g, "avg_time_per_q"))]]
        shown == SelectSeq(grouped, LAMBDA row : row.total_questions # 0)
    IN  [k \in 1..Len(shown) |->
            LET acc == accuracy(shown[k].correct, shown[k].total_questions)
            IN  [module |-> module,
                 question_type |-> shown[k].question_type,
                 part |-> shown[k].part,
                 correct |-> shown[k].correct,
                 total |-> shown[k].total_questions,
                 acc |-> acc,
                 acc_text |-> format_fixed(acc, 10),
                 avg_shown |-> module = "Reading",
                 avg_t |-> shown[k].avg_time_per_q,
                 avg_text |-> IF module = "Reading"
                              THEN format_fixed(shown[k].avg_time_per_q, 100)
                              ELSE <<>>]]

show_stats_table_out(df_stats) ==
    IF df_stats = <<>> THEN Error
    ELSE [kind |-> "table", df |-> df_stats,
          rows |-> table_rows(df_stats, "Listening")
                   \o table_rows(df_stats, "Reading")]

(***************************************************************************)
(* View Stats: the callbacks.                                              *)
(***************************************************************************)
NoViewWin == [open |-> FALSE, df |-> <<>>]
Nothing == [kind |-> "none"]

\* "View Stats and Plots": loads the store; the Choose Plot window opens
\* unless the store is empty.
view_stats ==
    /\ viewWin' = IF load_data = <<>> THEN viewWin
                  ELSE [open |-> TRUE, df |-> load_data]
    /\ UNCHANGED <<csv, addWin, delWin, presented, call>>

\* "Listening Overall" / "Reading Overall"
plot_overall(module) ==
    /\ viewWin.open
    /\ viewWin' = NoViewWin
    /\ presented' = plot_overall_out(viewWin.df, module)
    /\ UNCHANGED <<csv, addWin, delWin, call>>

\* "Listening by Part"
plot_listening_part_by_part ==
    /\ viewWin.open
    /\ viewWin' = NoViewWin
    /\ presented' = plot_listening_part_by_part_out(viewWin.df)
    /\ UNCHANGED <<csv, addWin, delWin, call>>

\* "Show Question Types Stats": reads the store again.
show_stats_table ==
    /\ viewWin.open
    /\ viewWin' = NoViewWin
    /\ presented' = show_stats_table_out(load_data)
    /\ UNCHANGED <<csv, addWin, delWin, call>>

\* A call of get_band on the integer drawn for it.
call_get_band ==
    /\ ~call.done
    /\ call' = [call EXCEPT !.done = TRUE, !.result = get_band(call.arg)]
    /\ UNCHANGED <<csv, addWin, delWin, viewWin, presented>>

(***************************************************************************)
(* The program after start-up, and the GUI of the store: Add and Delete.   *)
(***************************************************************************)
NoCall == [arg |-> 0, done |-> TRUE, result |-> 0]

Init ==
    /\ csv = EmptyStore
    /\ addWin = NoAddWin
    /\ delWin = NoDelWin
    /\ viewWin = NoViewWin
    /\ presented = Nothing
    /\ call = NoCall

\* What the user selects and types in the GUI model.
Clock(hours) == {[date |-> "2025-01-01", hour |-> h, minute |-> 5] : h \in hours}
GuiBooks == {str(15)}
GuiTests == {str(1)}
GuiParts == {str(1), str(2)}
GuiQTypes == {"Multiple choice"}
GuiTotals == {<<"x">>, str(0), str(2)}
GuiCorrects == {str(0), str(3)}
GuiMinutes == {<<>>, str(0), str(3)}
Selections == {<<>>} \cup {<<i>> : i \in 0..(MaxRecords - 1)}

Next ==
    \/ add_exam
    \/ \E m \in MODULE_VALUES : select_module(m)
    \/ \E p \in GuiParts : select_part(p)
    \/ \E q \in GuiQTypes : select_qtype(q)
    \/ \E b \in GuiBooks, t \in GuiTests, tq \in GuiTotals, c \in GuiCorrects,
          mi \in GuiMinutes, now \in Clock({9}) : submit(b, t, tq, c, mi, now)
    \/ delete_exam
    \/ \E sel \in Selections : delete_selected(sel)

Spec == Init /\ [][Next]_vars

(***************************************************************************)
(* get_band on its own.                                                    *)
(***************************************************************************)
Scores == (0 - MaxOver)..(40 + MaxOver)

InitBand ==
    /\ csv = EmptyStore
    /\ addWin = NoAddWin
    /\ delWin = NoDelWin
    /\ viewWin = NoViewWin
    /\ presented = Nothing
    /\ call \in {[arg |-> c, done |-> FALSE, result |-> 0] : c \in Scores}

NextBand == call_get_band

SpecBand == InitBand /\ [][NextBand]_vars

(***************************************************************************)
(* View Stats over the stores the form can have written.                   *)
(***************************************************************************)
\* The Add Exam window after the user chose module m, then part p (when the
\* part combobox takes it), then question type q (when the list offers it).
form(m, p, q) ==
    LET w1 == on_module_change([on_module_change(NewAddWin)
                                   EXCEPT !.module_var = m])
        w2 == IF w1.part_state = "readonly" THEN [w1 EXCEPT !.part_var = p]
              ELSE w1
    IN  IF q \in Range(w2.qtype_values) THEN [w2 EXCEPT !.qtype_var = q]
        ELSE w2

\* The rows submit saves for the given selections and entries.
saved_rows(Ms, Ps, Qs, Bs, Ts, TQs, Cs, Mis, Nows) ==
    LET tried == {new_row(form(m, p, q), b, t, tq, c, mi, now) :
                     m \in Ms, p \in Ps, q \in Qs, b \in Bs, t \in Ts,
                     tq \in TQs, c \in Cs, mi \in Mis, now \in Nows}
    IN  {read_back(x[1]) : x \in tried \ {<<>>}}

\* The stores of at most MaxStatsRecords of these rows: what a sequence of
\* saves and deletes leaves.
Stores(rows) == UNION {[1..n -> rows] : n \in 0..MaxStatsRecords}

InitStats(rows) ==
    /\ csv \in Stores(rows)
    /\ addWin = NoAddWin
    /\ delWin = NoDelWin
    /\ viewWin = NoViewWin
    /\ presented = Nothing
    /\ call = NoCall

NextView ==
    \/ view_stats
    \/ \E m \in MODULE_VALUES : plot_overall(m)
    \/ plot_listening_part_by_part
    \/ show_stats_table

\* Sums: two tests, both modules, two parts, with and without minutes.
SumRows ==
    saved_rows(MODULE_VALUES, {str(1), str(2)}, {"Multiple choice"},
               {str(15)}, {str(1), str(4)}, {str(10)}, {str(6), str(8)},
               {<<>>, str(5)}, Clock({9}))

SpecSums == InitStats(SumRows) /\ [][NextView]_vars

\* Zero totals: attempts saved with 0 questions.
ZeroRows ==
    saved_rows(MODULE_VALUES, {str(1)}, {"Multiple choice"},
               {str(15)}, {str(1), str(4)}, {str(0), str(10)}, {str(0)},
               {str(5)}, Clock({9}))

SpecZero == InitStats(ZeroRows) /\ [][NextView]_vars

\* Trend: two books, two tests, both modules, a morning and an afternoon hour.
TrendRows ==
    saved_rows(MODULE_VALUES, {str(1)}, {"Multiple choice"},
               {str(15), str(16)}, {str(1), str(4)}, {str(10)}, {str(8)},
               {<<>>}, Clock({9, 14}))

SpecTrend == InitStats(TrendRows) /\ [][NextView]_vars

\* Listening parts: totals of 0, 10 and 48 questions.
PartRows ==
    saved_rows({"Listening"}, {str(1), str(2)}, {"Multiple choice"},
               {str(15)}, {str(1)}, {str(0), str(10), str(48)},
               {<<"-", "5">>, str(8), str(36)}, {<<>>}, Clock({9}))

SpecPart == InitStats(PartRows) /\ [][NextView]_vars

\* Reading times: two question types, minutes left empty or given, and an
\* attempt of 0 questions (minutes kept, no average).
TimeRows ==
    saved_rows(MODULE_VALUES, {str(1)}, {"Multiple choice", "Two-facts"},
               {str(15)}, {str(1)}, {str(0), str(2)}, {str(0)},
               {<<>>, str(3), str(6)}, Clock({9}))

SpecTime == InitStats(TimeRows) /\ [][NextView]_vars

\* A store file found at start-up that the form did not write: rows whose
\* correct exceeds total_questions.
ForeignRows ==
    {[date |-> "2025-01-01", time |-> strftime_HM([hour |-> 9, minute |-> 5]),
      book |-> 15, test |-> 1, module |-> m,
      part |-> IF m = "Listening" THEN <<1>> ELSE <<>>,
      question_type |-> "Multiple choice", total_questions |-> tq,
      correct |-> c,
      minutes |-> IF m = "Reading" THEN <<FromInt(5)>> ELSE <<>>,
      avg_time_per_q |-> IF m = "Reading" /\ tq > 0
                         THEN <<Frac(5, tq)>> ELSE <<>>] :
        m \in MODULE_VALUES, tq \in {0, 16, 20}, c \in {1, 7, 23}}

SpecForeign == InitStats(ForeignRows) /\ [][NextView]_vars

(***************************************************************************)
(* Properties.                                                             *)
(***************************************************************************)
\* The band table as documented, in tenths.
DocumentedBand(c) ==
    CASE c = 0 -> 0
      [] c = 1 -> 10
      [] c \in 2..3 -> 20
      [] c \in 4..5 -> 25
      [] c \in 6..7 -> 30
      [] c \in 8..10 -> 35
      [] c \in 11..12 -> 40
      [] c \in 13..15 -> 45
      [] c \in 16..19 -> 50
      [] c \in 20..22 -> 55
      [] c \in 23..26 -> 60
      [] c \in 27..29 -> 65
      [] c \in 30..32 -> 70
      [] c \in 33..34 -> 75
      [] c \in 35..36 -> 80
      [] c \in 37..38 -> 85
      [] c \in 39..40 -> 90

\* C1: get_band returns the documented table value for every integer in
\* 0..40, the value of 0 for every negative integer and the value of 40 for
\* every integer above 40 (so clamping first changes nothing).
C1_BandTable ==
    (call.done /\ call.arg \in Scores) =>
        LET c == call.arg
            clamped == IF c < 0 THEN 0 ELSE IF c > 40 THEN 40 ELSE c
        IN  /\ call.result = DocumentedBand(clamped)
            /\ call.result = get_band(clamped)

\* A call above the table has returned the band of 40.
C1_Witness == call.done /\ call.arg > 40 /\ call.result = 90

\* C2: no group whose summed total_questions is 0 is among the groups of the
\* overall trend, of the Listening-by-part plot or of the statistics table.
C2_NoZeroTotalGroup ==
    /\ presented.kind = "overall" =>
           \A k \in 1..Len(presented.grouped) :
               presented.grouped[k].total_questions # 0
    /\ presented.kind = "by_part" =>
           \A k \in 1..Len(presented.grouped) :
               presented.grouped[k].total_questions # 0
    /\ presented.kind = "table" =>
           \A k \in 1..Len(presented.rows) : presented.rows[k].total # 0

\* C3: every save appends its record to the store as it is at save time,
\* and every delete removes exactly the record at the selected position of
\* the store as it is at delete time.
C3_StoreReadModifyWrite ==
    [][/\ \A sel \in Selections :
              (sel # <<>> /\ delete_selected(sel)) => csv' = drop(csv, sel[1])
       /\ (addWin.open /\ ~addWin'.open /\ delWin' = delWin) =>
              (Len(csv') = Len(csv) + 1 /\ SubSeq(csv', 1, Len(csv)) = csv)]_vars

\* The records of df that plot_overall puts in the group of record r.
SameTest(df, module, r) ==
    SelectSeq(df, LAMBDA x : x.module = module /\ x.book = r.book
                             /\ x.test = r.test)

\* The records of df that show_stats_table puts in the group of a row.
SameType(df, row) ==
    SelectSeq(df, LAMBDA x :
        /\ x.module = row.module
        /\ x.question_type = row.question_type
        /\ (row.module = "Listening" => x.part = row.part)
        /\ (row.module = "Reading" => x.minutes # <<>>))

\* C4: the correct and total of every group of the overall trend and of
\* every row of the statistics table are the sums over exactly the records
\* of that group, and the trend's band is get_band of the summed correct.
C4_GroupSums ==
    /\ presented.kind = "overall" =>
           LET df == presented.df
               m == presented.module
               g == presented.grouped
           IN  /\ \A i \in 1..Len(df) :
                      df[i].module = m =>
                          \E k \in 1..Len(g) :
                              /\ g[k].book_test = book_test(df[i])
                              /\ g[k].correct =
                                     sum(column(SameTest(df, m, df[i]), "correct"))
                              /\ g[k].total_questions =
                                     sum(column(SameTest(df, m, df[i]),
                                                "total_questions"))
                              /\ g[k].band_score = DocumentedBand(
                                     IF g[k].correct > 40 THEN 40
                                     ELSE IF g[k].correct < 0 THEN 0
                                     ELSE g[k].correct)
               /\ \A k \in 1..Len(g) :
                      \E i \in 1..Len(df) :
                          df[i].module = m /\ g[k].book_test = book_test(df[i])
               /\ \A k, l \in 1..Len(g) :
                      k # l => g[k].book_test # g[l].book_test
    /\ presented.kind = "table" =>
           LET df == presented.df
               rows == presented.rows
           IN  /\ \A k \in 1..Len(rows) :
                      /\ SameType(df, rows[k]) # <<>>
                      /\ rows[k].correct =
                             sum(column(SameType(df, rows[k]), "correct"))
                      /\ rows[k].total =
                             sum(column(SameType(df, rows[k]), "total_questions"))
               /\ \A k, l \in 1..Len(rows) :
                      (k # l /\ rows[k].module = rows[l].module
                             /\ rows[k].question_type = rows[l].question_type)
                          => rows[k].part # rows[l].part

\* Two Listening records of test 15-1 with 8 and 6 correct out of 10 each
\* are one group: correct 14, total 20, band 4.5.
C4_Witness ==
    /\ presented.kind = "overall"
    /\ presented.module = "Listening"
    /\ Len(SelectSeq(presented.df,
                     LAMBDA x : x.module = "Listening" /\ x.test = 1)) = 2
    /\ \E k \in 1..Len(presented.grouped) :
           /\ presented.grouped[k].book_test = str(15) \o <<"-">> \o str(1)
           /\ presented.grouped[k].correct = 14
           /\ presented.grouped[k].total_questions = 20
           /\ presented.grouped[k].band_score = 45

Precedes(b1, t1, b2, t2) == b1 < b2 \/ (b1 = b2 /\ t1 < t2)

\* The key is monotonic over the books and tests the form offers.
KeyMonotonic ==
    \A b1, b2 \in 10..29, t1, t2 \in 1..4 :
        Precedes(b1, t1, b2, t2) =>
            book_test_order(str(b1), str(t1)) < book_test_order(str(b2), str(t2))

\* The documented examples; in the second the texts compare the other way.
KeyExamples ==
    /\ book_test_order(str(15), str(1)) < book_test_order(str(16), str(4))
    /\ book_test_order(str(9), str(9)) < book_test_order(str(10), str(1))
    /\ text_less(str(10) \o <<"-">> \o str(1), str(9) \o <<"-">> \o str(9))

GroupIndexes(df, module, bt) ==
    {i \in 1..Len(df) : df[i].module = module /\ book_test(df[i]) = bt}

\* The hour a saved time text "HH:MM" shows.
HourOf(time) == digits_value(SubSeq(time, 1, 2))

\* C6: the hour of every point of the trend is the hour of the first record
\* of its group in the order of the store.
C6_HourOfFirstRecord ==
    presented.kind = "overall" =>
        LET df == presented.df
            g == presented.grouped
        IN  /\ Len(presented.hours) = Len(g)
            /\ \A k \in 1..Len(g) :
                   LET idx == GroupIndexes(df, presented.module, g[k].book_test)
                   IN  /\ idx # {}
                       /\ presented.hours[k] =
                              HourOf(df[CHOOSE i \in idx :
                                            \A j \in idx : i <= j].time)

\* A group saved at 14:05 and then at 09:05 shows hour 14.
C6_Witness ==
    /\ presented.kind = "overall"
    /\ Len(presented.df) = 2
    /\ presented.df[1].module = presented.module
    /\ presented.df[2].module = presented.module
    /\ book_test(presented.df[1]) = book_test(presented.df[2])
    /\ HourOf(presented.df[1].time) = 14
    /\ HourOf(presented.df[2].time) = 9
    /\ presented.hours = <<14>>

\* The Reading records of a question type whose avg_time_per_q is present.
Timed(df, qtype) ==
    SelectSeq(df, LAMBDA x : x.module = "Reading" /\ x.question_type = qtype
                             /\ x.avg_time_per_q # <<>>)

\* C7: the average time of a Reading row is the mean of avg_time_per_q over
\* the records of its group that have one; a record without it adds nothing.
C7_MeanOfPresentTimes ==
    presented.kind = "table" =>
        \A k \in 1..Len(presented.rows) :
            LET row == presented.rows[k]
                timed == Timed(presented.df, row.question_type)
            IN  row.module = "Reading" =>
                    /\ row.avg_shown
                    /\ IF timed = <<>> THEN IsNaN(row.avg_t)
                       ELSE FMul(row.avg_t, FromInt(Len(timed))) =
                                fsum([i \in 1..Len(timed) |->
                                         timed[i].avg_time_per_q[1]])

\* A Reading type with one record saved without minutes and one timed at
\* 3 minutes for 2 questions shows 1.5.
C7_Witness ==
    /\ presented.kind = "table"
    /\ Len(presented.df) = 2
    /\ presented.df[1].module = "Reading"
    /\ presented.df[2].module = "Reading"
    /\ presented.df[1].question_type = presented.df[2].question_type
    /\ presented.df[1].minutes = <<>>
    /\ presented.df[2].avg_time_per_q = << <<3, 2>> >>
    /\ Len(presented.rows) = 1
    /\ presented.rows[1].avg_t = <<3, 2>>
    /\ presented.rows[1].avg_text = <<150>>

\* The sub-score 5 + 4*correct/total of every part group with total > 0,
\* within 5..9 when 0 <= correct <= total, and on the plotted lines.
SubScoreLinear ==
    presented.kind = "by_part" =>
        /\ \A k \in 1..Len(presented.grouped) :
               LET g == presented.grouped[k]
               IN  g.total_questions > 0 =>
                       /\ g.band_score = Frac(5 * g.total_questions + 4 * g.correct,
                                              g.total_questions)
                       /\ (0 <= g.correct /\ g.correct <= g.total_questions) =>
                              (FLeq(FromInt(5), g.band_score)
                               /\ FLeq(g.band_score, FromInt(9)))
                       /\ \E i \in 1..Len(presented.lines) :
                              /\ presented.lines[i].part = g.part
                              /\ \E j \in 1..Len(presented.book_tests) :
                                     /\ presented.book_tests[j] = g.book_test
                                     /\ presented.lines[i].y_vals[j] = g.band_score

\* C8 as stated: the sub-score is 5 + 4*correct/total and is never the
\* band-table value of the same correct count.
C8_NeverTheBandValue ==
    /\ SubScoreLinear
    /\ presented.kind = "by_part" =>
           \A k \in 1..Len(presented.grouped) :
               LET g == presented.grouped[k]
               IN  g.total_questions > 0 =>
                       g.band_score # Frac(get_band(g.correct), 10)

\* C8 as amended: the sub-score is 5 + 4*correct/total; 8 of 10 gives 8.2
\* where the band table gives 3.5, while 36 of 48 gives 8.0 like the table.
C8_SubScore ==
    /\ SubScoreLinear
    /\ presented.kind = "by_part" =>
           \A k \in 1..Len(presented.grouped) :
               LET g == presented.grouped[k]
               IN  /\ (g.correct = 8 /\ g.total_questions = 10) =>
                          (g.band_score = <<41, 5>>
                           /\ g.band_score # Frac(DocumentedBand(8), 10))
                   /\ (g.correct = 36 /\ g.total_questions = 48) =>
                          (g.band_score = <<8, 1>>
                           /\ g.band_score = Frac(DocumentedBand(36), 10))

\* Part 1 with 8 of 10 is plotted at 8.2.
C8_Witness ==
    /\ presented.kind = "by_part"
    /\ \E k \in 1..Len(presented.grouped) :
           /\ presented.grouped[k].correct = 8
           /\ presented.grouped[k].total_questions = 10
           /\ presented.grouped[k].band_score = <<41, 5>>

\* C9: every stored record has correct <= total, a part exactly when it is
\* a Listening record, and minutes and avg_time_per_q both or neither, only
\* for a Reading record with positive minutes.
C9_RecordInvariants ==
    \A i \in 1..Len(csv) :
        LET r == csv[i]
        IN  /\ r.correct <= r.total_questions
            /\ (r.part # <<>>) <=> (r.module = "Listening")
            /\ (r.minutes # <<>>) <=> (r.avg_time_per_q # <<>>)
            /\ (r.minutes # <<>>) =>
                   (r.module = "Reading" /\ ~FLeq(r.minutes[1], FromInt(0)))

\* C10: every row of the statistics table with total > 0 shows
\* 100*correct/total, also when correct exceeds total: 23 of 20 is 115.0%.
C10_AccuracyDefined ==
    presented.kind = "table" =>
        \A k \in 1..Len(presented.rows) :
            LET row == presented.rows[k]
            IN  row.total > 0 =>
                    /\ row.acc = Frac(100 * row.correct, row.total)
                    /\ row.acc_text # <<>>
                    /\ 2 * Abs(row.acc_text[1] * row.total - 1000 * row.correct)
                           <= row.total
                    /\ (row.correct = 23 /\ row.total = 20) =>
                           row.acc_text = <<1150>>

\* A Reading row with 23 correct of 20 shows 115.0%.
C10_Witness ==
    /\ presented.kind = "table"
    /\ \E k \in 1..Len(presented.rows) :
           /\ presented.rows[k].module = "Reading"
           /\ presented.rows[k].correct = 23
           /\ presented.rows[k].total = 20
           /\ presented.rows[k].acc_text = <<1150>>

====
